---------------------------- MODULE Spec2Model ----------------------------
(***************************************************************************)
(* Model of src/server.js: a socket.io presence-and-relay hub.             *)
(*                                                                         *)
(* The file holds two definitions of the server one after the other: the   *)
(* full server (lines 1-253) and a second, shorter one (lines 255-341)     *)
(* with its own register, disconnect, send_message and notify handlers.    *)
(* Spec models the full server; SpecLegacy models the second definition    *)
(* over the same state variables.                                          *)
(*                                                                         *)
(* Node runs one handler at a time to completion, so every handler is one  *)
(* atomic action.  The Map keeps insertion order and is a sequence of      *)
(* entries with distinct keys.                                             *)
(***************************************************************************)
EXTENDS Integers, Sequences, FiniteSets

\* Number of connections the transport opens during a run (socket ids 1..MaxConn).
MaxConn == 3

\* The user ids clients send.
UserIds == {"alice", "bob"}

\* JS undefined (a destructured field that is not in the payload, a missing argument).
undefined == "<undefined>"

\* The falsy values a string-typed field takes here: undefined and "".
FalsyStrings == {undefined, ""}

\* !v of JS for the string-typed fields.
Not(v) == v \in FalsyStrings

\* A socket-id field that is missing from the payload (falsy, like undefined).
noSocketId == 0

\* The argument list of an event sent without a payload.
NoArgs == [absent |-> TRUE]

SocketIds == 1 .. MaxConn

VARIABLES
    nextId,          \* the transport has issued the socket ids 1 .. nextId - 1
    sockets,         \* ids of the currently connected sockets (io.sockets)
    connectedUsers,  \* the registry: Map userId => Set of socket ids
    last,            \* the event the most recent handler ran for
    before,          \* the registry as that handler found it
    out,             \* the emit calls of the most recent handler, in order
    uncaught,        \* an exception escaped a handler (the process is gone)
    view             \* the presence view each connected client keeps

vars == <<nextId, sockets, connectedUsers, last, before, out, uncaught, view>>

---------------------------------------------------------------------------
(* JS Set of socket ids.  A Set iterates in insertion order; the model keeps *)
(* the members only and iterates in ascending id order: the order decides    *)
(* nothing but the order of the emit calls of one fan-out.                   *)

SetHas(s, x) == x \in s

SetAdd(s, x) == s \cup {x}

SetDelete(s, x) == s \ {x}

RECURSIVE InOrder(_)
InOrder(s) ==
    IF s = {} THEN <<>>
    ELSE LET first == CHOOSE x \in s : \A y \in s : x <= y
         IN  <<first>> \o InOrder(s \ {first})

(* JS Map: a sequence of entries [userId, sockets] with distinct keys. *)

MapHas(m, k) == \E i \in 1 .. Len(m) : m[i].userId = k

MapIndex(m, k) == CHOOSE i \in 1 .. Len(m) : m[i].userId = k

\* Map.get: the value, or the empty set standing for undefined (every caller
\* treats undefined and an empty Set alike: it sends nothing).
MapGet(m, k) == IF MapHas(m, k) THEN m[MapIndex(m, k)].sockets ELSE {}

\* Map.set: a new key goes last, an existing key keeps its place.
MapSet(m, k, v) ==
    IF MapHas(m, k)
    THEN [m EXCEPT ![MapIndex(m, k)] = [userId |-> k, sockets |-> v]]
    ELSE Append(m, [userId |-> k, sockets |-> v])

MapDelete(m, k) == SelectSeq(m, LAMBDA e : e.userId # k)

\* Array.from(connectedUsers.keys())
MapKeys(m) == [i \in 1 .. Len(m) |-> m[i].userId]

---------------------------------------------------------------------------
(* Emit calls.  via is the call in the code, to the socket id it names. *)

IoEmit(event, data) == [via |-> "io.emit", to |-> noSocketId, event |-> event, data |-> data]

IoTo(socketId, event, data) == [via |-> "io.to", to |-> socketId, event |-> event, data |-> data]

SocketEmit(socket, event, data) == [via |-> "socket.emit", to |-> socket, event |-> event, data |-> data]

\* The connected sockets an emit call reaches: io.emit reaches every connected
\* socket; io.to(id) and socket.emit reach the socket with that id, if connected
\* (every socket is alone in the room named by its id and joins no other room).
Recipients(e, connected) ==
    IF e.via = "io.emit" THEN connected
    ELSE IF e.via \in {"io.to", "socket.emit"} THEN {e.to} \cap connected
    ELSE {}

\* One emit call per element of a Set, in the Set's order (Set.forEach).
ForEachEmit(ids, event, data) ==
    LET order == InOrder(ids)
    IN  [i \in 1 .. Len(order) |-> IoTo(order[i], event, data)]

Event(name, socket, payload) == [event |-> name, socket |-> socket, payload |-> payload]

---------------------------------------------------------------------------
(* The client of a connection.  It builds its presence view from the       *)
(* online_users message it receives, then adds the user of every           *)
(* user_online and removes the user of every user_offline it receives.     *)
(* Before its first online_users message it has no view.  No other event    *)
(* changes a view: the handlers that emit none of the three leave it.      *)

NoView == [listed |-> FALSE, users |-> {}]

\* The view v of the client of socket after one emit call e.
ReceiveOne(v, e, socket, connected) ==
    IF socket \notin Recipients(e, connected) THEN v
    ELSE IF e.event = "online_users"
         THEN [listed |-> TRUE,
               users |-> {e.data.userIds[k] : k \in 1 .. Len(e.data.userIds)}]
    ELSE IF e.event = "user_online" /\ v.listed
         THEN [v EXCEPT !.users = @ \cup {e.data.userId}]
    ELSE IF e.event = "user_offline" /\ v.listed
         THEN [v EXCEPT !.users = @ \ {e.data.userId}]
    ELSE v

\* The view v of the client of socket after the emit calls of one handler, in order.
RECURSIVE Receive(_, _, _, _)
Receive(v, emits, socket, connected) ==
    IF emits = <<>> THEN v
    ELSE Receive(ReceiveOne(v, Head(emits), socket, connected), Tail(emits), socket, connected)

\* The views after a handler that made the emit calls emits and left the
\* sockets of connected open; a closed connection has no client.
Views(v, emits, connected) ==
    LET heard == SelectSeq(emits, LAMBDA e :
                     e.event \in {"online_users", "user_online", "user_offline"})
    IN  [socket \in SocketIds |->
            IF socket \notin connected THEN NoView
            ELSE IF heard = <<>> THEN v[socket]
            ELSE Receive(v[socket], heard, socket, connected)]

---------------------------------------------------------------------------
Init ==
    /\ nextId = 1
    /\ sockets = {}
    /\ connectedUsers = <<>>
    /\ last = Event("init", noSocketId, NoArgs)
    /\ before = <<>>
    /\ out = <<>>
    /\ uncaught = FALSE
    /\ view = [socket \in SocketIds |-> NoView]

\* io.on("connection"): the transport opens a connection with a fresh id.
connection ==
    /\ ~uncaught
    /\ nextId <= MaxConn
    /\ nextId' = nextId + 1
    /\ sockets' = sockets \cup {nextId}
    /\ last' = Event("connection", nextId, NoArgs)
    /\ before' = connectedUsers
    /\ out' = <<>>
    /\ UNCHANGED <<connectedUsers, uncaught>>
    /\ view' = Views(view, out', sockets')

\* RegisterUser that deletes the key and sets it again: a key that is registered
\* again moves to the end of the Map.
RegisterUserReinserted(m, userId, socket) ==
    MapSet(MapDelete(m, userId), userId, SetAdd(MapGet(m, userId), socket))

\* The registry after register(userId) from socket: lines 28-31.
RegisterUser(m, userId, socket) ==
    LET m1 == IF ~MapHas(m, userId) THEN MapSet(m, userId, {}) ELSE m
    IN  MapSet(m1, userId, SetAdd(MapGet(m1, userId), socket))

\* OthersOnline without the test of line 47: the registering user is announced again.
OthersOnlineUnfiltered(onlineUserIds, userId, socket) ==
    [i \in 1 .. Len(onlineUserIds) |->
        SocketEmit(socket, "user_online", [userId |-> onlineUserIds[i]])]

\* The user_online events sent to the registering socket for the other users: lines 46-50.
OthersOnline(onlineUserIds, userId, socket) ==
    LET others == SelectSeq(onlineUserIds, LAMBDA onlineUserId : onlineUserId # userId)
    IN  [i \in 1 .. Len(others) |-> SocketEmit(socket, "user_online", [userId |-> others[i]])]

\* register that announces a userId only when it was not a key yet.
registerAnnouncedOnce(socket, userId) ==
    /\ ~uncaught
    /\ socket \in sockets
    /\ last' = Event("register", socket, [userId |-> userId])
    /\ before' = connectedUsers
    /\ IF Not(userId)
       THEN /\ out' = <<>>
            /\ UNCHANGED connectedUsers
       ELSE LET m == RegisterUser(connectedUsers, userId, socket)
                onlineUserIds == MapKeys(m)
            IN  /\ connectedUsers' = m
                /\ out' = IF MapHas(connectedUsers, userId)
                          THEN <<>>
                          ELSE <<IoEmit("user_online", [userId |-> userId]),
                                 SocketEmit(socket, "online_users", [userIds |-> onlineUserIds])>>
                               \o OthersOnline(onlineUserIds, userId, socket)
    /\ UNCHANGED <<nextId, sockets, uncaught>>
    /\ view' = Views(view, out', sockets')

\* socket.on("register", (userId) => ...)
register(socket, userId) ==
    /\ ~uncaught
    /\ socket \in sockets
    /\ last' = Event("register", socket, [userId |-> userId])
    /\ before' = connectedUsers
    /\ IF Not(userId)
       THEN /\ out' = <<>>
            /\ UNCHANGED connectedUsers
       ELSE LET m == RegisterUser(connectedUsers, userId, socket)
                onlineUserIds == MapKeys(m)
            IN  /\ connectedUsers' = m
                /\ out' = <<IoEmit("user_online", [userId |-> userId]),
                            SocketEmit(socket, "online_users", [userIds |-> onlineUserIds])>>
                          \o OthersOnline(onlineUserIds, userId, socket)
    /\ UNCHANGED <<nextId, sockets, uncaught>>
    /\ view' = Views(view, out', sockets')

\* The first entry, in Map order, whose Set holds the socket id; 0 when none does.
FirstOwner(m, socket) ==
    IF \E i \in 1 .. Len(m) : SetHas(m[i].sockets, socket)
    THEN CHOOSE i \in 1 .. Len(m) :
            /\ SetHas(m[i].sockets, socket)
            /\ \A j \in 1 .. i - 1 : ~SetHas(m[j].sockets, socket)
    ELSE 0

\* Unregister without the deletion of an entry left empty (lines 76-80 dropped).
UnregisterKeepsEmpty(m, socket) ==
    LET i == FirstOwner(m, socket)
    IN  IF i = 0 THEN m
        ELSE MapSet(m, m[i].userId, SetDelete(m[i].sockets, socket))

\* Unregister without the size test of line 76: the entry that held the socket
\* is deleted with the handles left in it.
UnregisterDropsEntry(m, socket) ==
    LET i == FirstOwner(m, socket)
    IN  IF i = 0 THEN m ELSE MapDelete(m, m[i].userId)

\* The registry after the loop of the disconnect handler: lines 70-83.
Unregister(m, socket) ==
    LET i == FirstOwner(m, socket)
    IN  IF i = 0 THEN m
        ELSE LET left == SetDelete(m[i].sockets, socket)
             IN  IF left = {}
                 THEN MapDelete(m, m[i].userId)
                 ELSE MapSet(m, m[i].userId, left)

\* UserIdToCheck that never names a user: no user_offline is emitted.
UserIdToCheckNobody(m, socket) == undefined

\* userIdToCheck assigned for every entry the loop visits (line 78 moved out of the
\* tests): when no Set holds the socket it ends as the last key.
UserIdToCheckEveryEntry(m, socket) ==
    LET i == FirstOwner(m, socket)
    IN  IF i # 0 THEN m[i].userId
        ELSE IF Len(m) > 0 THEN m[Len(m)].userId
        ELSE undefined

\* userIdToCheck after the loop: the user whose entry was deleted, or undefined (null).
UserIdToCheck(m, socket) ==
    LET i == FirstOwner(m, socket)
    IN  IF i # 0 /\ SetDelete(m[i].sockets, socket) = {}
        THEN m[i].userId
        ELSE undefined

\* socket.on("disconnect"): the transport has already removed the socket.
disconnect(socket) ==
    /\ ~uncaught
    /\ socket \in sockets
    /\ sockets' = sockets \ {socket}
    /\ last' = Event("disconnect", socket, NoArgs)
    /\ before' = connectedUsers
    /\ connectedUsers' = Unregister(connectedUsers, socket)
    /\ LET userIdToCheck == UserIdToCheck(connectedUsers, socket)
       IN  out' = IF ~Not(userIdToCheck)
                  THEN <<IoEmit("user_offline", [userId |-> userIdToCheck])>>
                  ELSE <<>>
    /\ UNCHANGED <<nextId, uncaught>>
    /\ view' = Views(view, out', sockets')

\* request_online_users that answers with io.emit: every connected socket gets the list.
request_online_usersToAll(socket) ==
    /\ ~uncaught
    /\ socket \in sockets
    /\ last' = Event("request_online_users", socket, NoArgs)
    /\ before' = connectedUsers
    /\ out' = <<IoEmit("online_users", [userIds |-> MapKeys(connectedUsers)])>>
    /\ UNCHANGED <<nextId, sockets, connectedUsers, uncaught>>
    /\ view' = Views(view, out', sockets')

\* socket.on("request_online_users")
request_online_users(socket) ==
    /\ ~uncaught
    /\ socket \in sockets
    /\ last' = Event("request_online_users", socket, NoArgs)
    /\ before' = connectedUsers
    /\ out' = <<SocketEmit(socket, "online_users", [userIds |-> MapKeys(connectedUsers)])>>
    /\ UNCHANGED <<nextId, sockets, connectedUsers, uncaught>>
    /\ view' = Views(view, out', sockets')

---------------------------------------------------------------------------
(* Relay and signaling handlers.  Each destructures its payload in the     *)
(* parameter list, which throws a TypeError when the event carries no      *)
(* payload; nothing catches it.                                            *)

(* The payloads clients send: every well-formed one over UserIds, and one   *)
(* payload for each required field, with that field missing.               *)

\* The values a user-id field of a payload takes.
IdValues == UserIds \cup {undefined}

\* The payload without one of its string-typed fields.
Without(p, field) == [p EXCEPT ![field] = undefined]

TypingPayloads ==
    LET valid == [senderId : UserIds, receiverId : UserIds]
        p0 == [senderId |-> "alice", receiverId |-> "bob"]
    IN  valid \cup {Without(p0, f) : f \in {"senderId", "receiverId"}}

\* The optional fields are both present or both missing.
MessagePayloads ==
    LET valid == {[senderId |-> s, receiverId |-> r, content |-> "hi",
                   messageId |-> o[1], createdAt |-> o[2]] :
                     s \in UserIds, r \in UserIds,
                     o \in {<<undefined, undefined>>, <<"m1", "t1">>}}
        p0 == [senderId |-> "alice", receiverId |-> "bob", content |-> "hi",
               messageId |-> "m1", createdAt |-> "t1"]
    IN  valid \cup {Without(p0, f) : f \in {"senderId", "receiverId", "content"}}

\* The optional fields are all present or all missing.
MediaPayloads ==
    LET valid == {[senderId |-> s, receiverId |-> r, mediaType |-> "image", data |-> o[1],
                   filename |-> o[2], messageId |-> o[3], createdAt |-> o[4]] :
                     s \in UserIds, r \in UserIds,
                     o \in {<<undefined, undefined, undefined, undefined>>,
                            <<"base64", "a.png", "m1", "t1">>}}
        p0 == [senderId |-> "alice", receiverId |-> "bob", mediaType |-> "image",
               data |-> "base64", filename |-> "a.png", messageId |-> "m1",
               createdAt |-> "t1"]
    IN  valid \cup {Without(p0, f) : f \in {"senderId", "receiverId", "mediaType"}}

OfferPayloads ==
    LET valid == [receiverId : UserIds, senderId : UserIds, offer : {"sdp-offer"}]
        p0 == [receiverId |-> "bob", senderId |-> "alice", offer |-> "sdp-offer"]
    IN  valid \cup {Without(p0, f) : f \in {"receiverId", "senderId", "offer"}}

\* The target is any socket id the transport may issue, connected or not.
AnswerPayloads ==
    [senderSocketId : SocketIds, answer : {"sdp-answer"}]
    \cup {[senderSocketId |-> noSocketId, answer |-> "sdp-answer"],
          [senderSocketId |-> 1, answer |-> undefined]}

IcePayloads ==
    [targetSocketId : SocketIds, candidate : {"cand"}]
    \cup {[targetSocketId |-> noSocketId, candidate |-> "cand"],
          [targetSocketId |-> 1, candidate |-> undefined]}

\* Handled that also drops the entries none of whose handles is an open
\* connection: a handler that prunes the registry as it reads it.
HandledPruning(name, socket, payload, emits) ==
    /\ ~uncaught
    /\ socket \in sockets
    /\ last' = Event(name, socket, payload)
    /\ before' = connectedUsers
    /\ out' = emits
    /\ uncaught' = FALSE
    /\ connectedUsers' = SelectSeq(connectedUsers, LAMBDA e : e.sockets \cap sockets # {})
    /\ UNCHANGED <<nextId, sockets, view>>

\* A handler that runs to its end with these emit calls and leaves the registry alone.
Handled(name, socket, payload, emits) ==
    /\ ~uncaught
    /\ socket \in sockets
    /\ last' = Event(name, socket, payload)
    /\ before' = connectedUsers
    /\ out' = emits
    /\ uncaught' = FALSE
    /\ UNCHANGED <<nextId, sockets, connectedUsers, view>>

\* A handler whose parameter destructuring throws: the event came without a payload.
Thrown(name, socket) ==
    /\ ~uncaught
    /\ socket \in sockets
    /\ last' = Event(name, socket, NoArgs)
    /\ before' = connectedUsers
    /\ out' = <<>>
    /\ uncaught' = TRUE
    /\ UNCHANGED <<nextId, sockets, connectedUsers, view>>

\* Lines 96-103 and 107-114: typing and stop_typing differ in the event name only.
TypingEmits(m, event, p) ==
    IF Not(p.senderId) \/ Not(p.receiverId) THEN <<>>
    ELSE ForEachEmit(MapGet(m, p.receiverId), event, [senderId |-> p.senderId])

\* socket.on("typing", ({ senderId, receiverId }) => ...)
typing(socket, p) ==
    IF p = NoArgs THEN Thrown("typing", socket)
    ELSE Handled("typing", socket, p, TypingEmits(connectedUsers, "typing", p))

\* socket.on("stop_typing", ({ senderId, receiverId }) => ...)
stop_typing(socket, p) ==
    IF p = NoArgs THEN Thrown("stop_typing", socket)
    ELSE Handled("stop_typing", socket, p, TypingEmits(connectedUsers, "stop_typing", p))

\* Lines 123-135.
MessageEmits(m, p) ==
    IF Not(p.senderId) \/ Not(p.receiverId) \/ Not(p.content) THEN <<>>
    ELSE ForEachEmit(MapGet(m, p.receiverId), "receive_message",
                     [senderId |-> p.senderId, content |-> p.content,
                      messageId |-> p.messageId, createdAt |-> p.createdAt])

\* socket.on("send_message", ({ senderId, receiverId, content, messageId, createdAt }) => ...)
send_message(socket, p) ==
    IF p = NoArgs THEN Thrown("send_message", socket)
    ELSE Handled("send_message", socket, p, MessageEmits(connectedUsers, p))

\* Lines 151-165.
MediaEmits(m, p) ==
    IF Not(p.senderId) \/ Not(p.receiverId) \/ Not(p.mediaType) THEN <<>>
    ELSE ForEachEmit(MapGet(m, p.receiverId), "receive_media",
                     [senderId |-> p.senderId, mediaType |-> p.mediaType, data |-> p.data,
                      filename |-> p.filename, messageId |-> p.messageId,
                      createdAt |-> p.createdAt])

\* socket.on("send_media", ({ senderId, receiverId, mediaType, data, ... }) => ...)
send_media(socket, p) ==
    IF p = NoArgs THEN Thrown("send_media", socket)
    ELSE Handled("send_media", socket, p, MediaEmits(connectedUsers, p))

\* Lines 175-186: the offer carries the id of the socket that sent it.
OfferEmits(m, socket, p) ==
    IF Not(p.receiverId) \/ Not(p.senderId) \/ Not(p.offer) THEN <<>>
    ELSE ForEachEmit(MapGet(m, p.receiverId), "webrtc_offer",
                     [senderSocketId |-> socket, senderId |-> p.senderId, offer |-> p.offer])

\* socket.on("webrtc_offer", ({ receiverId, senderId, offer }) => ...)
webrtc_offer(socket, p) ==
    IF p = NoArgs THEN Thrown("webrtc_offer", socket)
    ELSE Handled("webrtc_offer", socket, p, OfferEmits(connectedUsers, socket, p))

\* The answer fanned out to every socket of the users the named socket is listed under
\* (a user lookup in place of the direct addressing).
AnswerEmitsToUser(socket, p) ==
    IF p.senderSocketId = noSocketId \/ Not(p.answer) THEN <<>>
    ELSE ForEachEmit(
            UNION {connectedUsers[i].sockets :
                     i \in {j \in 1 .. Len(connectedUsers) :
                               p.senderSocketId \in connectedUsers[j].sockets}},
            "webrtc_answer", [answer |-> p.answer, receiverSocketId |-> socket])

\* The answer broadcast with io.emit in place of io.to(senderSocketId).
AnswerEmitsBroadcast(socket, p) ==
    IF p.senderSocketId = noSocketId \/ Not(p.answer) THEN <<>>
    ELSE <<IoEmit("webrtc_answer", [answer |-> p.answer, receiverSocketId |-> socket])>>

\* Lines 191-196: the answer goes to the socket id the payload names.
AnswerEmits(socket, p) ==
    IF p.senderSocketId = noSocketId \/ Not(p.answer) THEN <<>>
    ELSE <<IoTo(p.senderSocketId, "webrtc_answer",
                [answer |-> p.answer, receiverSocketId |-> socket])>>

\* socket.on("webrtc_answer", ({ senderSocketId, answer }) => ...)
webrtc_answer(socket, p) ==
    IF p = NoArgs THEN Thrown("webrtc_answer", socket)
    ELSE Handled("webrtc_answer", socket, p, AnswerEmits(socket, p))

\* Lines 201-203.
IceEmits(p) ==
    IF p.targetSocketId = noSocketId \/ Not(p.candidate) THEN <<>>
    ELSE <<IoTo(p.targetSocketId, "webrtc_ice", [candidate |-> p.candidate])>>

\* socket.on("webrtc_ice", ({ targetSocketId, candidate }) => ...)
webrtc_ice(socket, p) ==
    IF p = NoArgs THEN Thrown("webrtc_ice", socket)
    ELSE Handled("webrtc_ice", socket, p, IceEmits(p))

\* The status object of debug_status: lines 210-220.
DebugStatus(m, socket) ==
    [totalUsers |-> Len(m),
     connectedUsers |-> [i \in 1 .. Len(m) |->
                            [userId |-> m[i].userId,
                             socketCount |-> Cardinality(m[i].sockets),
                             socketIds |-> InOrder(m[i].sockets)]],
     socketId |-> socket]

\* socket.on("debug_status")
debug_status(socket) ==
    Handled("debug_status", socket, NoArgs,
            <<SocketEmit(socket, "debug_status_response", DebugStatus(connectedUsers, socket))>>)

---------------------------------------------------------------------------
(* The HTTP endpoints.  A response is recorded in out as a res.json call. *)

ResJson(body) == [via |-> "res.json", to |-> noSocketId, event |-> "response", data |-> body]

\* An HTTP request handled to its end.
Served(name, payload, emits) ==
    /\ ~uncaught
    /\ last' = Event(name, noSocketId, payload)
    /\ before' = connectedUsers
    /\ out' = emits
    /\ UNCHANGED <<nextId, sockets, connectedUsers, uncaught, view>>

\* app.get("/api/online-users")
api_online_users ==
    LET onlineUsers == MapKeys(connectedUsers)
    IN  Served("api_online_users", NoArgs,
               <<ResJson([success |-> TRUE, onlineUsers |-> onlineUsers,
                          count |-> Len(onlineUsers)])>>)

NotifyBodies == [recipientId : IdValues, message : {"appointment"}]

\* notify_appointment that sends the notification with io.emit when the
\* recipient has an entry: every connected socket gets it.
notify_appointmentToAll(body) ==
    Served("notify_appointment", body,
           (IF MapHas(connectedUsers, body.recipientId)
            THEN <<IoEmit("notification", [message |-> body.message])>>
            ELSE <<>>)
           \o <<ResJson([success |-> TRUE])>>)

\* app.post("/notify/appointment"): express.json() leaves a body object, so the
\* destructuring of req.body does not throw.
notify_appointment(body) ==
    Served("notify_appointment", body,
           ForEachEmit(MapGet(connectedUsers, body.recipientId), "notification",
                       [message |-> body.message])
           \o <<ResJson([success |-> TRUE])>>)

---------------------------------------------------------------------------
(* The second definition of the server, lines 255-341: its own register,   *)
(* disconnect and send_message handlers and its own notify endpoint.       *)

\* socket.on("register") of lines 275-285: the registry change only, no announcement.
legacy_register(socket, userId) ==
    /\ ~uncaught
    /\ socket \in sockets
    /\ last' = Event("register", socket, [userId |-> userId])
    /\ before' = connectedUsers
    /\ connectedUsers' = IF Not(userId) THEN connectedUsers
                         ELSE RegisterUser(connectedUsers, userId, socket)
    /\ out' = <<>>
    /\ UNCHANGED <<nextId, sockets, uncaught>>
    /\ view' = Views(view, out', sockets')

\* The registry after the loop of lines 291-296: the id leaves every Set, and
\* every entry left empty is deleted.
LegacyUnregister(m, socket) ==
    LET removed == [i \in 1 .. Len(m) |->
                       [userId |-> m[i].userId, sockets |-> SetDelete(m[i].sockets, socket)]]
    IN  SelectSeq(removed, LAMBDA e : e.sockets # {})

\* socket.on("disconnect") of lines 287-297: no user_offline is sent.
legacy_disconnect(socket) ==
    /\ ~uncaught
    /\ socket \in sockets
    /\ sockets' = sockets \ {socket}
    /\ last' = Event("disconnect", socket, NoArgs)
    /\ before' = connectedUsers
    /\ connectedUsers' = LegacyUnregister(connectedUsers, socket)
    /\ out' = <<>>
    /\ UNCHANGED <<nextId, uncaught>>
    /\ view' = Views(view, out', sockets')

\* Lines 305-318: no field is checked; the receiver gets receive_message without
\* messageId and createdAt, and the sender's sockets get message_sent.
LegacyMessageEmits(m, p) ==
    ForEachEmit(MapGet(m, p.receiverId), "receive_message",
                [senderId |-> p.senderId, content |-> p.content])
    \o ForEachEmit(MapGet(m, p.senderId), "message_sent",
                   [receiverId |-> p.receiverId, content |-> p.content])

\* socket.on("send_message", (data) => ...) of lines 301-319; the destructuring of
\* line 302 throws when the event carries no payload.
legacy_send_message(socket, p) ==
    IF p = NoArgs THEN Thrown("send_message", socket)
    ELSE Handled("send_message", socket, p, LegacyMessageEmits(connectedUsers, p))

\* app.post("/notify/appointment") of lines 323-337.
legacy_notify_appointment(body) ==
    Served("notify_appointment", body,
           ForEachEmit(MapGet(connectedUsers, body.recipientId), "notification",
                       [message |-> body.message])
           \o <<ResJson([success |-> TRUE])>>)

---------------------------------------------------------------------------
(* The specifications.  Registry changes only in connection, register and  *)
(* disconnect; the other handlers read it.  Spec is the whole server.      *)
(* SpecPresence, SpecRelay and SpecSignaling are the server driven with    *)
(* the presence, relay and signaling events only: the same registry states *)
(* are reachable in each, with fewer events to interleave.                 *)

Registry ==
    \/ connection
    \/ \E socket \in sockets, userId \in UserIds \cup FalsyStrings : register(socket, userId)
    \/ \E socket \in sockets : disconnect(socket)

Presence ==
    \/ \E socket \in sockets : request_online_users(socket)
    \/ \E socket \in sockets : debug_status(socket)
    \/ api_online_users
    \/ \E body \in NotifyBodies : notify_appointment(body)

Relay ==
    \/ \E socket \in sockets, p \in TypingPayloads \cup {NoArgs} : typing(socket, p)
    \/ \E socket \in sockets, p \in TypingPayloads \cup {NoArgs} : stop_typing(socket, p)
    \/ \E socket \in sockets, p \in MessagePayloads \cup {NoArgs} : send_message(socket, p)
    \/ \E socket \in sockets, p \in MediaPayloads \cup {NoArgs} : send_media(socket, p)

Signaling ==
    \/ \E socket \in sockets, p \in OfferPayloads \cup {NoArgs} : webrtc_offer(socket, p)
    \/ \E socket \in sockets, p \in AnswerPayloads \cup {NoArgs} : webrtc_answer(socket, p)
    \/ \E socket \in sockets, p \in IcePayloads \cup {NoArgs} : webrtc_ice(socket, p)

Next == Registry \/ Presence \/ Relay \/ Signaling

Spec == Init /\ [][Next]_vars

SpecPresence == Init /\ [][Registry \/ Presence]_vars

SpecRelay == Init /\ [][Registry \/ Relay]_vars

SpecSignaling == Init /\ [][Registry \/ Signaling]_vars

NextLegacy ==
    \/ connection
    \/ \E socket \in sockets, userId \in UserIds \cup FalsyStrings : legacy_register(socket, userId)
    \/ \E socket \in sockets : legacy_disconnect(socket)
    \/ \E socket \in sockets, p \in MessagePayloads \cup {NoArgs} : legacy_send_message(socket, p)
    \/ \E body \in NotifyBodies : legacy_notify_appointment(body)

SpecLegacy == Init /\ [][NextLegacy]_vars

---------------------------------------------------------------------------
(* Vocabulary of the properties. *)

\* userId is a key of the registry m.
IsKey(m, userId) == \E i \in 1 .. Len(m) : m[i].userId = userId

\* The handle set stored under userId in the registry m (empty when there is no key).
HandleSet(m, userId) == UNION {m[i].sockets : i \in {j \in 1 .. Len(m) : m[j].userId = userId}}

\* The users under which the registry m lists the handle.
OwnersOf(m, socket) == {u \in UserIds : socket \in HandleSet(m, u)}

\* The connected sockets when the most recent handler started.
SocketsBefore ==
    IF last.event = "disconnect" THEN sockets \cup {last.socket}
    ELSE IF last.event = "connection" THEN sockets \ {last.socket}
    ELSE sockets

\* The positions in out of the emit calls of an event.
Emitted(event) == {i \in 1 .. Len(out) : out[i].event = event}

\* The number of user_offline{userId} emit calls of the most recent handler.
OfflineCount(userId) ==
    Cardinality({i \in Emitted("user_offline") : out[i].data.userId = userId})

---------------------------------------------------------------------------
(* C1: between handler invocations a userId is a key of connectedUsers if  *)
(* and only if its handle set is non-empty (no empty set stays in the      *)
(* map), and no key occurs twice.                                          *)
C1_KeyIffHandleSetNonEmpty ==
    /\ \A u \in UserIds \cup FalsyStrings :
          IsKey(connectedUsers, u) <=> HandleSet(connectedUsers, u) # {}
    /\ \A i, j \in 1 .. Len(connectedUsers) :
          connectedUsers[i].userId = connectedUsers[j].userId => i = j

\* A disconnect has just emptied a user's set and removed the key, another user staying.
C1_Witness ==
    /\ last.event = "disconnect"
    /\ \E u \in UserIds :
          /\ HandleSet(before, u) = {last.socket}
          /\ ~IsKey(connectedUsers, u)
    /\ \E v \in UserIds :
          /\ IsKey(connectedUsers, v)
          /\ HandleSet(connectedUsers, v) \subseteq sockets

(* C2: a user_offline{userId} is emitted exactly once by each event that   *)
(* takes the user from some connected registered socket to none, and by no *)
(* other event.                                                            *)
C2_OfflineOncePerTransitionToZero ==
    \A u \in UserIds :
        OfflineCount(u) =
            IF /\ HandleSet(before, u) \cap SocketsBefore # {}
               /\ HandleSet(connectedUsers, u) \cap sockets = {}
            THEN 1 ELSE 0

(* C3: a connection handle is listed under at most one userId, and after a *)
(* register(userId) from a connection its handle is listed under that      *)
(* userId only.                                                            *)
C3_HandleUnderAtMostOneUser ==
    /\ \A h \in SocketIds : Cardinality(OwnersOf(connectedUsers, h)) <= 1
    /\ (last.event = "register" /\ ~Not(last.payload.userId))
          => OwnersOf(connectedUsers, last.socket) = {last.payload.userId}

(* C4: once a connection's disconnect has been processed its handle is in  *)
(* no handle set: every stored handle is a connected socket, so every key  *)
(* has a connected socket registered under it.                             *)
C4_StoredHandlesAreConnected ==
    /\ \A u \in UserIds : HandleSet(connectedUsers, u) \subseteq sockets
    /\ \A u \in UserIds :
          IsKey(connectedUsers, u) => HandleSet(connectedUsers, u) \cap sockets # {}
    /\ last.event = "disconnect" => OwnersOf(connectedUsers, last.socket) = {}

\* The emit calls of the most recent handler that are io.to(socket).emit(event, data).
SentTo(socket, event, data) ==
    {i \in 1 .. Len(out) : out[i] = IoTo(socket, event, data)}

\* The most recent handler ran for this event with a payload.
Ran(event) == last.event = event /\ last.payload # NoArgs

(* C5: a send_message with senderId, receiverId and content, processed     *)
(* when the receiver's handle set is S, makes exactly one receive_message  *)
(* emit call to each handle of S, carrying senderId, content, messageId    *)
(* and createdAt as sent, and no other emit call (none when the receiver   *)
(* has no entry, none to the sender's handles).                            *)
C5_MessageToReceiverHandlesOnly ==
    (/\ Ran("send_message")
     /\ ~Not(last.payload.senderId)
     /\ ~Not(last.payload.receiverId)
     /\ ~Not(last.payload.content))
    => LET p == last.payload
           S == HandleSet(before, p.receiverId)
           data == [senderId |-> p.senderId, content |-> p.content,
                    messageId |-> p.messageId, createdAt |-> p.createdAt]
       IN  /\ \A h \in S : Cardinality(SentTo(h, "receive_message", data)) = 1
           /\ Len(out) = Cardinality(S)
           /\ \A i \in 1 .. Len(out) : Recipients(out[i], sockets) \subseteq S

(* C6: a webrtc_offer from connection c makes one webrtc_offer emit call   *)
(* to each handle of the receiver, with senderSocketId = c; a              *)
(* webrtc_answer naming senderSocketId = c makes one emit call, which      *)
(* reaches c if c is connected and no other connection.                    *)
C6_OfferCarriesCallerAnswerReachesCaller ==
    /\ (/\ Ran("webrtc_offer")
        /\ ~Not(last.payload.receiverId)
        /\ ~Not(last.payload.senderId)
        /\ ~Not(last.payload.offer))
       => LET p == last.payload
              S == HandleSet(before, p.receiverId)
              data == [senderSocketId |-> last.socket, senderId |-> p.senderId,
                       offer |-> p.offer]
          IN  /\ \A h \in S : Cardinality(SentTo(h, "webrtc_offer", data)) = 1
              /\ Len(out) = Cardinality(S)
    /\ (/\ Ran("webrtc_answer")
        /\ last.payload.senderSocketId # noSocketId
        /\ ~Not(last.payload.answer))
       => LET c == last.payload.senderSocketId
          IN  /\ Len(out) = 1
              /\ out[1].event = "webrtc_answer"
              /\ out[1].data = [answer |-> last.payload.answer,
                                receiverSocketId |-> last.socket]
              /\ Recipients(out[1], sockets) = {c} \cap sockets

\* An answer has gone to the caller's connection c while the caller's user has a
\* second connected socket and the answering socket belongs to another user.
C6_Witness ==
    /\ Ran("webrtc_answer")
    /\ out # <<>>
    /\ LET c == last.payload.senderSocketId
       IN  /\ c \in sockets
           /\ c # last.socket
           /\ \E u \in UserIds :
                 /\ c \in HandleSet(connectedUsers, u)
                 /\ last.socket \notin HandleSet(connectedUsers, u)
                 /\ \E c2 \in sockets \ {c} : c2 \in HandleSet(connectedUsers, u)
           /\ \E v \in UserIds : last.socket \in HandleSet(connectedUsers, v)

\* The socket id a signaling event is addressed to.
Target(e) ==
    IF e.event = "webrtc_answer" THEN e.payload.senderSocketId
    ELSE e.payload.targetSocketId

\* The most recent handler ran for an answer or an ICE candidate with all its fields.
DirectSignal ==
    \/ Ran("webrtc_answer") /\ last.payload.senderSocketId # noSocketId
                            /\ ~Not(last.payload.answer)
    \/ Ran("webrtc_ice") /\ last.payload.targetSocketId # noSocketId
                         /\ ~Not(last.payload.candidate)

(* C7: a webrtc_answer or webrtc_ice addressed to the handle of a          *)
(* connection that has disconnected reaches no connection, raises no error *)
(* and leaves the registry unchanged.                                      *)
C7_SignalToClosedHandleIsDropped ==
    (/\ DirectSignal
     /\ Target(last) < nextId
     /\ Target(last) \notin sockets)
    => /\ \A i \in 1 .. Len(out) : Recipients(out[i], sockets) = {}
       /\ ~uncaught
       /\ connectedUsers = before

\* An answer names a socket that has disconnected, while other sockets are connected
\* and registered.
C7_Witness ==
    /\ Ran("webrtc_answer")
    /\ ~Not(last.payload.answer)
    /\ last.payload.senderSocketId \in (1 .. nextId - 1) \ sockets
    /\ Cardinality(sockets) >= 2
    /\ \A h \in sockets : OwnersOf(connectedUsers, h) # {}

\* The registry keys.
Keys(m) == {m[i].userId : i \in 1 .. Len(m)}

\* The emit calls of user_online{userId} by the most recent handler.
OnlineCalls(userId) == {i \in Emitted("user_online") : out[i].data.userId = userId}

(* C8: register(userId) from connection h with a non-empty userId makes    *)
(* one user_online{userId} that reaches every connected socket (h too),    *)
(* one online_users to h only whose userIds are the registry keys after    *)
(* the registration, one user_online{other} to h only for each other key,  *)
(* and nothing else.                                                       *)
C8_RegisterAnnouncements ==
    (last.event = "register" /\ ~Not(last.payload.userId))
    => LET u == last.payload.userId
           h == last.socket
           keys == Keys(connectedUsers)
       IN  /\ h \in sockets /\ u \in keys
           /\ Cardinality(OnlineCalls(u)) = 1
           /\ \A i \in OnlineCalls(u) : Recipients(out[i], sockets) = sockets
           /\ Cardinality(Emitted("online_users")) = 1
           /\ \A i \in Emitted("online_users") :
                 /\ Recipients(out[i], sockets) = {h}
                 /\ {out[i].data.userIds[k] : k \in 1 .. Len(out[i].data.userIds)} = keys
                 /\ Len(out[i].data.userIds) = Cardinality(keys)
           /\ \A o \in keys \ {u} :
                 /\ Cardinality(OnlineCalls(o)) = 1
                 /\ \A i \in OnlineCalls(o) : Recipients(out[i], sockets) = {h}
           /\ Len(out) = 1 + Cardinality(keys)
           /\ \A i \in 1 .. Len(out) : out[i].event \in {"user_online", "online_users"}

\* A second user registers on a second socket while the first user is online.
C8_Witness ==
    /\ last.event = "register"
    /\ ~Not(last.payload.userId)
    /\ Cardinality(Keys(connectedUsers)) = 2
    /\ Cardinality(sockets) >= 2
    /\ \E o \in Keys(before) \ {last.payload.userId} :
          HandleSet(connectedUsers, o) \cap (sockets \ {last.socket}) # {}

\* The most recent handler ran for an event whose payload lacks a required field, or
\* that came without a payload.
Malformed ==
    \/ last.event = "register" /\ Not(last.payload.userId)
    \/ /\ last.event \in {"typing", "stop_typing", "send_message", "send_media",
                          "webrtc_offer", "webrtc_answer", "webrtc_ice"}
       /\ last.payload = NoArgs
    \/ /\ \/ Ran("typing") \/ Ran("stop_typing") \/ Ran("send_message")
          \/ Ran("send_media") \/ Ran("webrtc_offer")
       /\ Not(last.payload.senderId) \/ Not(last.payload.receiverId)
    \/ Ran("send_message") /\ Not(last.payload.content)
    \/ Ran("send_media") /\ Not(last.payload.mediaType)
    \/ Ran("webrtc_offer") /\ Not(last.payload.offer)
    \/ Ran("webrtc_answer") /\ (last.payload.senderSocketId = noSocketId
                                \/ Not(last.payload.answer))
    \/ Ran("webrtc_ice") /\ (last.payload.targetSocketId = noSocketId
                             \/ Not(last.payload.candidate))

(* C9: malformed input is dropped silently: the handler makes no emit      *)
(* call, leaves the registry unchanged and raises no error.                *)
C9_MalformedDroppedSilently ==
    Malformed => /\ out = <<>>
                 /\ connectedUsers = before
                 /\ ~uncaught

(* C10: the disconnect of a connection whose handle is in no handle set    *)
(* leaves the registry unchanged, emits no user_offline (nothing at all)   *)
(* and raises no error.                                                    *)
C10_DisconnectOfUnregisteredIsNoOp ==
    (last.event = "disconnect" /\ OwnersOf(before, last.socket) = {})
    => /\ connectedUsers = before
       /\ Emitted("user_offline") = {}
       /\ out = <<>>
       /\ ~uncaught

\* A socket that never registered has disconnected while users are online.
C10_Witness ==
    /\ last.event = "disconnect"
    /\ OwnersOf(before, last.socket) = {}
    /\ Cardinality(Keys(before)) = 2
    /\ \A u \in Keys(before) : HandleSet(before, u) \subseteq sockets

---------------------------------------------------------------------------
\* C11: when the handle set of a userId is two distinct open connections and
\* one of them disconnects, the userId stays a key, its handle set is exactly
\* the other connection, and no user_offline{userId} is emitted.
C11_OtherHandleKeepsUserOnline ==
    last.event = "disconnect" =>
        \A u \in UserIds : \A h2 \in sockets :
            HandleSet(before, u) = {last.socket, h2} =>
                /\ IsKey(connectedUsers, u)
                /\ HandleSet(connectedUsers, u) = {h2}
                /\ OfflineCount(u) = 0

---------------------------------------------------------------------------
\* The most recent handler ran register with a userId that passes line 25.
Registered == last.event = "register" /\ ~Not(last.payload.userId)

\* C12: register is idempotent on the registry.  A register(userId) from a
\* connection that is already in the handle set of userId leaves the registry
\* as it was (the keys, their order and every handle set), and registering
\* twice in a row gives the registry that registering once gives.
C12_RegisterTwiceIsRegisterOnce ==
    /\ (Registered /\ last.socket \in HandleSet(before, last.payload.userId)) =>
           connectedUsers = before
    /\ \A socket \in sockets, userId \in UserIds :
           RegisterUser(RegisterUser(connectedUsers, userId, socket), userId, socket)
               = RegisterUser(connectedUsers, userId, socket)

\* The same connection registers again under the first of two keys, whose
\* set holds another handle too.
C12_Witness ==
    /\ Registered
    /\ Len(before) = 2
    /\ before[1].userId = last.payload.userId
    /\ before[1].sockets = {last.socket} \cup (sockets \ {last.socket})
    /\ Cardinality(before[1].sockets) = 2
    /\ connectedUsers = before

---------------------------------------------------------------------------
\* C13: presence announcements are not deduplicated.  Every register with a
\* non-empty userId, also one for a userId that is a key already, makes an
\* io.emit of user_online{userId}, which reaches every connected socket, and
\* sends the registering connection online_users with the keys of the registry
\* in Map order.
C13_AnnouncementsNotDeduplicated ==
    Registered =>
        /\ \E i \in OnlineCalls(last.payload.userId) :
              /\ out[i] = IoEmit("user_online", [userId |-> last.payload.userId])
              /\ Recipients(out[i], sockets) = sockets
        /\ \E j \in Emitted("online_users") :
              out[j] = SocketEmit(last.socket, "online_users",
                                  [userIds |-> MapKeys(connectedUsers)])

\* A connection registers again under a userId that has another open
\* connection too.
C13_Witness ==
    /\ Registered
    /\ last.socket \in HandleSet(before, last.payload.userId)
    /\ (HandleSet(before, last.payload.userId) \cap sockets) \ {last.socket} # {}
    /\ Len(out) >= 2

---------------------------------------------------------------------------
\* C14: request_online_users from a connection, registered or not, makes one
\* emit call and no other: online_users, whose userIds are exactly the keys of
\* the registry, each once.  It reaches the requester and no other connected
\* socket, and the registry is left unchanged.
C14_SnapshotToRequesterOnly ==
    last.event = "request_online_users" =>
        /\ Len(out) = 1
        /\ out[1].event = "online_users"
        /\ Recipients(out[1], sockets) = {last.socket}
        /\ {out[1].data.userIds[k] : k \in 1 .. Len(out[1].data.userIds)}
               = Keys(connectedUsers)
        /\ Len(out[1].data.userIds) = Cardinality(Keys(connectedUsers))
        /\ connectedUsers = before
        /\ ~uncaught

\* A connection that is in no handle set asks while two users are online on
\* other open connections.
C14_Witness ==
    /\ last.event = "request_online_users"
    /\ OwnersOf(connectedUsers, last.socket) = {}
    /\ Cardinality(Keys(connectedUsers)) = 2
    /\ \A u \in UserIds : HandleSet(connectedUsers, u) \cap sockets # {}
    /\ Len(out) = 1

---------------------------------------------------------------------------
\* The emit calls of the most recent handler that are not the HTTP response.
SocketCalls == {i \in 1 .. Len(out) : out[i].via # "res.json"}

\* C15: notify(recipientId, message) makes one io.to(h) call of
\* notification{message} for each handle h of the recipient's handle set and no
\* other socket call, so that the notification reaches the open connections of
\* that set and no other connection; without an entry for the recipient it
\* makes no socket call.  In both cases the response is {success: true}, and
\* the registry is left unchanged.
C15_NotifyReachesRecipientHandlesOnly ==
    last.event = "notify_appointment" =>
        LET handles == HandleSet(before, last.payload.recipientId)
        IN  /\ \A h \in handles :
                  Cardinality({i \in SocketCalls :
                      out[i] = IoTo(h, "notification",
                                    [message |-> last.payload.message])}) = 1
            /\ \A i \in SocketCalls :
                  /\ out[i].event = "notification"
                  /\ out[i].via = "io.to"
                  /\ out[i].to \in handles
                  /\ Recipients(out[i], sockets) = {out[i].to} \cap sockets
            /\ Cardinality(SocketCalls) = Cardinality(handles)
            /\ (~IsKey(before, last.payload.recipientId) => SocketCalls = {})
            /\ Len(out) = Cardinality(SocketCalls) + 1
            /\ out[Len(out)] = ResJson([success |-> TRUE])
            /\ connectedUsers = before
            /\ ~uncaught

\* The recipient has two open connections and a third connection belongs to
\* another user.
C15_Witness ==
    /\ last.event = "notify_appointment"
    /\ Cardinality(HandleSet(before, last.payload.recipientId) \cap sockets) = 2
    /\ sockets \ HandleSet(before, last.payload.recipientId) # {}
    /\ Cardinality(Keys(before)) = 2
    /\ Cardinality(SocketCalls) = 2

\* The recipient has no entry while another user is online.
C15_WitnessNoEntry ==
    /\ last.event = "notify_appointment"
    /\ ~IsKey(before, last.payload.recipientId)
    /\ before # <<>>
    /\ out = <<ResJson([success |-> TRUE])>>

---------------------------------------------------------------------------
\* The events relayed to the handle set of payload.receiverId.
RelayEvents == {"typing", "stop_typing", "send_message", "send_media", "webrtc_offer"}

\* The most recent handler relayed an event that carries its required fields.
Relayed == last.event \in RelayEvents /\ last.payload # NoArgs /\ ~Malformed

\* The handles the emit calls of the most recent handler are addressed to.
SentHandles == {out[i].to : i \in 1 .. Len(out)}

\* C16: no partial fan-out.  In every interleaving of a relay event with
\* registers and disconnects, the handles the relay is sent to are the
\* receiver's handle set as the handler found it, and none of them is a
\* handle whose disconnect was processed before the relay.
C16_FanOutToLiveHandleSet ==
    Relayed =>
        /\ SentHandles = HandleSet(before, last.payload.receiverId)
        /\ SentHandles \subseteq sockets

---------------------------------------------------------------------------
\* C17: presence reconstruction.  A connection that registered and is still
\* open has a view, and after every event the view of every open connection
\* that has one equals the set of keys of the registry.
C17_ViewEqualsRegistryKeys ==
    \A socket \in sockets :
        /\ OwnersOf(connectedUsers, socket) # {} => view[socket].listed
        /\ view[socket].listed => view[socket].users = Keys(connectedUsers)

\* A registered connection that stays open sees the last handle of another
\* user's entry close: the key is deleted and user_offline is broadcast.
C17_Witness ==
    /\ last.event = "disconnect"
    /\ \E u \in Keys(before) \ Keys(connectedUsers) : OfflineCount(u) = 1
    /\ \E socket \in sockets :
          /\ OwnersOf(connectedUsers, socket) # {}
          /\ last.socket > socket
          /\ view[socket].users = Keys(connectedUsers)
          /\ view[socket].users # {}

---------------------------------------------------------------------------
\* C18: a disconnect removes nothing but the disconnecting connection's own
\* handle.  The set of a userId that does not hold the handle stays as it was
\* and stays a key; no set gains a handle or loses a handle other than the
\* disconnecting one; no key is added and at most one key is deleted.
C18_DisconnectRemovesOwnHandleOnly ==
    last.event = "disconnect" =>
        /\ \A u \in UserIds :
              /\ last.socket \notin HandleSet(before, u) =>
                    /\ HandleSet(connectedUsers, u) = HandleSet(before, u)
                    /\ IsKey(connectedUsers, u) <=> IsKey(before, u)
              /\ HandleSet(before, u) \ {last.socket} \subseteq HandleSet(connectedUsers, u)
              /\ HandleSet(connectedUsers, u) \subseteq HandleSet(before, u)
        /\ Keys(connectedUsers) \subseteq Keys(before)
        /\ Cardinality(Keys(before) \ Keys(connectedUsers)) <= 1

\* The connection that closes shares its user's set with another handle, and
\* another user has a set that does not hold it.
C18_Witness ==
    /\ last.event = "disconnect"
    /\ \E u \in UserIds :
          /\ last.socket \in HandleSet(before, u)
          /\ Cardinality(HandleSet(before, u)) = 2
          /\ HandleSet(connectedUsers, u) = HandleSet(before, u) \ {last.socket}
          /\ \E o \in UserIds \ {u} :
                /\ HandleSet(before, o) # {}
                /\ last.socket \notin HandleSet(before, o)
                /\ HandleSet(connectedUsers, o) = HandleSet(before, o)

---------------------------------------------------------------------------
\* The events whose handlers only read the registry.
ReadOnlyEvents ==
    {"typing", "stop_typing", "send_message", "send_media", "webrtc_offer",
     "webrtc_answer", "webrtc_ice", "debug_status"}

\* C19: only register and disconnect change the registry.  A typing,
\* stop_typing, send_message, send_media, webrtc_offer, webrtc_answer,
\* webrtc_ice or debug_status event, whatever its payload, leaves the registry
\* as the handler found it; debug_status makes one emit call, which reaches
\* the requester and no other connection and whose totalUsers is the number
\* of keys of the registry.
C19_OnlyRegisterAndDisconnectWrite ==
    /\ last.event \in ReadOnlyEvents => connectedUsers = before
    /\ last.event = "debug_status" =>
          /\ Len(out) = 1
          /\ out[1].event = "debug_status_response"
          /\ out[1].data.totalUsers = Cardinality(Keys(connectedUsers))
          /\ Recipients(out[1], sockets) = {last.socket}

\* debug_status is asked while two users are keys, other connections are
\* open and one entry holds closed handles only.
C19_Witness ==
    /\ last.event = "debug_status"
    /\ Cardinality(Keys(before)) = 2
    /\ sockets \ {last.socket} # {}
    /\ \E u \in Keys(before) : HandleSet(before, u) \cap sockets = {}
    /\ out[1].data.totalUsers = 2

\* A well-formed message is relayed to a receiver with two handles.
C19_WitnessRelay ==
    /\ Relayed
    /\ last.event = "send_message"
    /\ Cardinality(HandleSet(before, last.payload.receiverId)) = 2
    /\ Len(out) = 2
    /\ connectedUsers = before

=============================================================================
